---- MODULE Spec2Model ----
(***************************************************************************)
(* Model of mycroft/tts/__init__.py: the TTS base class (execute, the      *)
(* phoneme cache, clear_cache) and its PlaybackThread (run, show_visimes,  *)
(* blink, stop).                                                           *)
(*                                                                         *)
(* The caller thread runs execute / clear_cache / init / stop as single    *)
(* steps (each is a synchronous call that touches the consumer only        *)
(* through the queue and the _terminated flag).  The playback thread is    *)
(* followed statement by statement through its blocking points: the loop   *)
(* test, queue.get(timeout=2), the walk over the visimes with its sleeps,  *)
(* and p.communicate().                                                    *)
(*                                                                         *)
(* Time is counted in ticks of 0.1 s and only while a walk is sleeping:    *)
(* elapsed is time() - start of the walk in progress.                      *)
(***************************************************************************)
EXTENDS Integers, Sequences, FiniteSets, TLC

\* ------------------------------------------------------------------ bounds
\* Number of execute calls a behaviour makes.
MaxCalls == 2

\* ------------------------------------------------------------- input sets
\* The sentences execute is called with.
Utterances == {"hello"}

\* str(hashlib.md5(sentence.encode('utf-8', 'ignore')).hexdigest()): the digest
\* of a sentence, one per sentence.
Fingerprint(u) == <<"md5", u>>

Keys == {Fingerprint(u) : u \in Utterances}

None == <<"None">>
NoFile == <<"NoFile">>
NoJob == [id |-> 0, snd_type |-> "", data |-> <<>>, visimes |-> <<>>]
NoExec == [u |-> "", hit |-> FALSE, synth |-> 0, synthOK |-> FALSE, phonemes |-> None,
           result |-> "none"]
NoAbort == [id |-> 0, sent |-> 0, live |-> FALSE]

JobIds == 1..MaxCalls

\* The steps of TTSValidator.validate, in the order of its calls.
ValidationSteps == <<"instance", "filename", "lang", "connection">>

NoValidation == [ran |-> <<>>, failed |-> "", result |-> "none"]

\* The phoneme string the backend produces for an utterance, as a sequence of
\* characters; "a", "b" and "c" are phonemes, " " is white space.
PhonemesOf(u) == <<" ", "a", "b", "c">>

\* The file types of the backends (self.type); "ogg" stands for any type that
\* run() has no player for.
SndTypes == {"wav", "mp3", "ogg"}

VARIABLES
    ttsType,      \* self.type of the backend instance
    wavFiles,     \* keys whose audio file <key><type> exists in the cache dir
    phoFiles,     \* key -> content of <key>.pho, or NoFile
    queue,        \* self.queue: sequence of jobs (snd_type, data, visimes)
    calls,        \* execute calls made so far; a job's id is the number of its call
    lastExec,     \* the latest execute call since the last clear_cache: its
                  \* sentence, whether the audio file was found, how often it
                  \* invoked get_tts, whether get_tts returned, its local
                  \* phonemes, and how the call ended: "returned" or the
                  \* exception that left it
    enclosure,    \* playback.enclosure: "unset" until init(ws), then "set"
    terminated,   \* PlaybackThread._terminated
    stopResult,   \* outcome of the latest stop() call: "none", "returned", "NameError"
    stopHead,     \* the lowest job id that was queued at, or submitted after, the
                  \* first stop() call; 0 before it
    validation,   \* TTSFactory.create's call of validate(): the steps it ran, the
                  \* step that raised ("" if none), and how create ended:
                  \* "none" (not yet), "returned" (the instance) or "raised"
    pc,           \* where the playback thread is
    cur,          \* run()'s locals snd_type, data, visimes while a job is handled
    p,            \* run()'s local p: id of the job whose process it holds, 0 if unbound
    playing,      \* ids of the jobs whose player process is running
    vIdx,         \* index of the pair show_visimes is at
    elapsed,      \* time() - start in the walk in progress, in ticks
    stoppingTTS,  \* the signal file 'stoppingTTS' exists
    buttonPress,  \* the signal file 'buttonPress' exists
    playLog,      \* ids of the jobs play_wav / play_mp3 was called for, in order
    emitted,      \* the <<code, elapsed>> of each mouth_viseme sent for cur so far
    walkEnd,      \* how the walk of cur ended: "", "done", "stop", "button"
    lastAborted,  \* the last job whose walk returned on 'stoppingTTS': its id,
                  \* the number of visimes sent for it before, and whether the
                  \* signal it returned on is still the one in place
    lastCrashed   \* id of the last job whose handling raised an exception

vars == <<ttsType, wavFiles, phoFiles, queue, calls, lastExec, enclosure, terminated,
          stopResult, stopHead, validation, pc, cur, p, playing, vIdx, elapsed, stoppingTTS,
          buttonPress, playLog, emitted, walkEnd, lastAborted, lastCrashed>>

cacheVars == <<wavFiles, phoFiles>>
execVars == <<queue, calls, lastExec>>
callerVars == <<ttsType, enclosure, terminated, stopResult, stopHead, validation>>
threadVars == <<pc, cur, p, playing, vIdx, elapsed>>
signalVars == <<stoppingTTS, buttonPress>>
logVars == <<playLog, emitted, walkEnd, lastAborted, lastCrashed>>

\* --------------------------------------------------------------- helpers
Max(a, b) == IF a >= b THEN a ELSE b

RECURSIVE LStrip(_)
LStrip(s) == IF s # <<>> /\ Head(s) = " " THEN LStrip(Tail(s)) ELSE s

RECURSIVE RStrip(_)
RStrip(s) == IF s # <<>> /\ s[Len(s)] = " " THEN RStrip(SubSeq(s, 1, Len(s) - 1)) ELSE s

\* str.strip()
Strip(s) == RStrip(LStrip(s))

\* Python truth of a phoneme string or a visime list: None and empty are false.
Truthy(x) == x # None /\ x # <<>>

\* The (code, duration) pair of one phoneme: durations in ticks of 0.1 s.
VisimeOf(c) ==
    IF c = "a" THEN <<"A", 5>> ELSE IF c = "b" THEN <<"B", 3>> ELSE <<"C", 7>>

RECURSIVE VisimePairs(_)
VisimePairs(s) ==
    IF s = <<>> THEN <<>>
    ELSE IF Head(s) = " " THEN VisimePairs(Tail(s))
    ELSE <<VisimeOf(Head(s))>> \o VisimePairs(Tail(s))

\* visime(phonemes) of a backend with timing support: one pair per phoneme,
\* white space skipped; None for no phonemes.
Visime(phonemes) == IF phonemes = None THEN None ELSE VisimePairs(phonemes)

\* ------------------------------------------------------------------ Init
\* The state after TTS.__init__: the thread started at the top of its loop with
\* no enclosure attribute, the queue empty, the cache emptied by clear_cache().
Init ==
    /\ ttsType \in SndTypes
    /\ wavFiles = {}
    /\ phoFiles = [k \in Keys |-> NoFile]
    /\ queue = <<>>
    /\ calls = 0
    /\ lastExec = NoExec
    /\ enclosure = "unset"
    /\ terminated = FALSE
    /\ stopResult = "none"
    /\ stopHead = 0
    /\ validation = NoValidation
    /\ pc = "loop"
    /\ cur = NoJob
    /\ p = 0
    /\ playing = {}
    /\ vIdx = 0
    /\ elapsed = 0
    /\ stoppingTTS = FALSE
    /\ buttonPress = FALSE
    /\ playLog = <<>>
    /\ emitted = <<>>
    /\ walkEnd = ""
    /\ lastAborted = NoAbort
    /\ lastCrashed = 0

\* ---------------------------------------------------------- caller thread
\* A validate() that runs every step whatever the earlier ones did.
StepsRunAll(bad) == ValidationSteps

\* The steps validate() runs when the steps of bad are the ones that raise:
\* each step is a plain call, so the first that raises ends validate().
StepsRun(bad) ==
    LET n == Len(ValidationSteps)
        stopAt == IF \E i \in 1..n : ValidationSteps[i] \in bad
                  THEN CHOOSE i \in 1..n :
                          /\ ValidationSteps[i] \in bad
                          /\ \A k \in 1..(i - 1) : ValidationSteps[k] \notin bad
                  ELSE n
    IN  SubSeq(ValidationSteps, 1, stopAt)

\* The step whose exception leaves validate(), "" when none raises.
StepFailed(bad) ==
    LET n == Len(ValidationSteps)
    IN  IF \E i \in 1..n : ValidationSteps[i] \in bad
        THEN ValidationSteps[CHOOSE i \in 1..n :
                                /\ ValidationSteps[i] \in bad
                                /\ \A k \in 1..(i - 1) : ValidationSteps[k] \notin bad]
        ELSE ""

\* The end of TTSFactory.create, after the backend was constructed:
\* tts.validator.validate(), then "return tts".  The steps read the backend
\* (isinstance, tts.filename, the directory of the file) and assign nothing.
Create ==
    /\ validation.result = "none"
    /\ \E bad \in SUBSET {ValidationSteps[i] : i \in DOMAIN ValidationSteps} :
          validation' = [ran |-> StepsRun(bad),
                         failed |-> StepFailed(bad),
                         result |-> IF StepFailed(bad) = "" THEN "returned" ELSE "raised"]
    /\ UNCHANGED <<ttsType, enclosure, terminated, stopResult, stopHead>>
    /\ UNCHANGED <<cacheVars, execVars, threadVars, signalVars, logVars>>

\* The callers of init, execute and clear_cache hold the instance that
\* TTSFactory.create returned.
Returned == validation.result = "returned"

\* TTS.init(ws): attaches the enclosure to the playback thread.
InitWs ==
    /\ Returned
    /\ enclosure = "unset"
    /\ enclosure' = "set"
    /\ UNCHANGED <<ttsType, terminated, stopResult, stopHead, validation>>
    /\ UNCHANGED <<cacheVars, execVars, threadVars, signalVars, logVars>>

\* A cache test that looks for the phoneme file instead of the audio file.
CacheHitOnPho(key) == phoFiles[key] # NoFile

\* os.path.exists(wav_file) in execute.
CacheHit(key) == key \in wavFiles

\* A load_phonemes without the os.path.exists test and the try block.
LoadPhonemesUnchecked(key, readOK) == Strip(phoFiles[key])

\* load_phonemes(key): the stripped content of <key>.pho, None when the file is
\* absent or reading it fails.
LoadPhonemes(key, readOK) ==
    IF phoFiles[key] # NoFile /\ readOK THEN Strip(phoFiles[key]) ELSE None

\* What get_tts(sentence, wav_file) of a backend may do: raise, or produce the
\* audio at wav_file or at a path of its own (the returned wav_file is the
\* one used) together with the phoneme string of the sentence or None.
GetTTSOutcomes(u) ==
    {[raises |-> TRUE, atDest |-> FALSE, phonemes |-> None]}
    \cup {[raises |-> FALSE, atDest |-> d, phonemes |-> ph] :
             d \in BOOLEAN, ph \in {PhonemesOf(u), None}}

\* What mycroft.util.curate_cache(cache_dir) may do: raise, or delete any of
\* the files of the directory (none when space suffices).
CurateOutcomes ==
    {[raises |-> TRUE, wav |-> {}, pho |-> {}]}
    \cup {[raises |-> FALSE, wav |-> w, pho |-> f] : w \in SUBSET Keys, f \in SUBSET Keys}

\* The open(pho_file, "w") / write of save_phonemes: done, open failed (file as
\* it was), or write failed after the open truncated the file.
WriteOutcomes == {"ok", "openFails", "writeFails"}

\* <key>.pho after the try block of save_phonemes.
WritePho(files, key, phonemes, w) ==
    IF w = "ok" THEN [files EXCEPT ![key] = phonemes]
    ELSE IF w = "writeFails" THEN [files EXCEPT ![key] = <<>>]
    ELSE files

\* Queue(): maxsize of the queue made in TTS.__init__; 0 is a queue without
\* upper bound.
QueueMaxsize == 0

\* Queue.full()
QueueFull == QueueMaxsize > 0 /\ Len(queue) >= QueueMaxsize

\* A put that adds the job at the head of the queue.
SubmitAtHead(data, phonemes) ==
    /\ ~QueueFull
    /\ queue' = <<[id |-> calls + 1, snd_type |-> ttsType, data |-> data,
                   visimes |-> Visime(phonemes)]>> \o queue

\* self.queue.put((self.type, wav_file, self.visime(phonemes))): blocks while
\* the queue is full.
Submit(data, phonemes) ==
    /\ ~QueueFull
    /\ queue' = Append(queue, [id |-> calls + 1, snd_type |-> ttsType, data |-> data,
                               visimes |-> Visime(phonemes)])

\* execute(sentence) on a cache hit.
ExecuteHit(u, key, readOK) ==
    /\ Submit(key, LoadPhonemes(key, readOK))
    /\ lastExec' = [u |-> u, hit |-> TRUE, synth |-> 0, synthOK |-> FALSE,
                    phonemes |-> LoadPhonemes(key, readOK), result |-> "returned"]
    /\ UNCHANGED <<wavFiles, phoFiles>>

\* An execute that drops the exception of get_tts and queues a job all the same.
ExecuteSynthFailsQueued(u) ==
    /\ lastExec' = [u |-> u, hit |-> FALSE, synth |-> 1, synthOK |-> FALSE,
                    phonemes |-> None, result |-> "returned"]
    /\ Submit(Fingerprint(u), None)
    /\ UNCHANGED <<wavFiles, phoFiles>>

\* execute(sentence) on a miss whose get_tts raises: the exception leaves execute.
ExecuteSynthFails(u) ==
    /\ lastExec' = [u |-> u, hit |-> FALSE, synth |-> 1, synthOK |-> FALSE,
                    phonemes |-> None, result |-> "SynthesisError"]
    /\ UNCHANGED <<wavFiles, phoFiles, queue>>

\* execute(sentence) on a miss whose get_tts returned no phonemes: save_phonemes
\* is skipped.
ExecuteMissNoPho(u, key, out) ==
    /\ wavFiles' = IF out.atDest THEN wavFiles \cup {key} ELSE wavFiles
    /\ Submit(IF out.atDest THEN key ELSE <<"other", u>>, out.phonemes)
    /\ lastExec' = [u |-> u, hit |-> FALSE, synth |-> 1, synthOK |-> TRUE,
                    phonemes |-> out.phonemes, result |-> "returned"]
    /\ UNCHANGED phoFiles

\* execute(sentence) on a miss with phonemes: save_phonemes curates the cache
\* (outside its try block), then writes <key>.pho (inside it).
ExecuteMissPho(u, key, out, cu, w) ==
    LET wav1 == IF out.atDest THEN wavFiles \cup {key} ELSE wavFiles
        pho2 == [k \in Keys |-> IF k \in cu.pho THEN NoFile ELSE phoFiles[k]]
    IN  IF cu.raises
        THEN /\ wavFiles' = wav1
             /\ UNCHANGED <<phoFiles, queue>>
             /\ lastExec' = [u |-> u, hit |-> FALSE, synth |-> 1, synthOK |-> TRUE,
                             phonemes |-> out.phonemes, result |-> "CurateError"]
        ELSE /\ wavFiles' = wav1 \ cu.wav
             /\ phoFiles' = WritePho(pho2, key, out.phonemes, w)
             /\ Submit(IF out.atDest THEN key ELSE <<"other", u>>, out.phonemes)
             /\ lastExec' = [u |-> u, hit |-> FALSE, synth |-> 1, synthOK |-> TRUE,
                             phonemes |-> out.phonemes, result |-> "returned"]

\* execute(sentence) on a miss.
ExecuteMiss(u, key) ==
    \E out \in GetTTSOutcomes(u) :
        IF out.raises THEN ExecuteSynthFails(u)
        ELSE IF Truthy(out.phonemes)
        THEN \E cu \in CurateOutcomes, w \in WriteOutcomes :
                ExecuteMissPho(u, key, out, cu, w)
        ELSE ExecuteMissNoPho(u, key, out)

\* TTS.execute(sentence)
Execute(u) ==
    /\ Returned
    /\ calls < MaxCalls
    /\ calls' = calls + 1
    /\ LET key == Fingerprint(u)
       IN  IF CacheHit(key)
           THEN \E readOK \in BOOLEAN : ExecuteHit(u, key, readOK)
           ELSE ExecuteMiss(u, key)
    /\ UNCHANGED <<callerVars, threadVars, signalVars, logVars>>

\* A clear_cache that unlinks the audio files only.
ClearCacheKeepsPho ==
    /\ wavFiles' = {}
    /\ lastExec' = NoExec
    /\ UNCHANGED <<phoFiles, queue, calls>>
    /\ UNCHANGED <<callerVars, threadVars, signalVars, logVars>>

\* TTS.clear_cache(): unlinks every file of the cache directory.
ClearCache ==
    /\ Returned
    /\ wavFiles' = {}
    /\ phoFiles' = [k \in Keys |-> NoFile]
    /\ lastExec' = NoExec
    /\ UNCHANGED <<queue, calls>>
    /\ UNCHANGED <<callerVars, threadVars, signalVars, logVars>>

\* self._terminated = True
SetTerminated == terminated' = TRUE

\* The drain loop of stop(): "while not self.queue.empty(): queue.get()".  The
\* module has no name "queue" (it imports the class Queue), so the first
\* iteration raises NameError and the queue keeps its jobs; with an empty
\* queue the loop is not entered and stop() returns.
StopDrain ==
    /\ stopResult' = IF queue = <<>> THEN "returned" ELSE "NameError"
    /\ UNCHANGED queue

\* PlaybackThread.stop(), called by TTS.__del__ once create has ended, with or
\* without an instance returned.
Stop ==
    /\ validation.result # "none"
    /\ SetTerminated
    /\ StopDrain
    /\ stopHead' = IF stopHead # 0 THEN stopHead
                   ELSE IF queue # <<>> THEN Head(queue).id ELSE calls + 1
    /\ UNCHANGED <<ttsType, enclosure, calls, lastExec, validation>>
    /\ UNCHANGED <<cacheVars, threadVars, signalVars, logVars>>

\* ------------------------------------------------------------ environment
\* The signals are read by show_visimes alone, at the top of each iteration:
\* a signal raised or removed at any earlier moment is seen there as one
\* raised or removed while the walk is on, so only those moments are modelled.
Walking == pc \in {"vis", "sleep"}

\* create_signal('stoppingTTS') by whoever asks the speech to stop.
SetStopSignal ==
    /\ Walking
    /\ ~stoppingTTS
    /\ stoppingTTS' = TRUE
    /\ UNCHANGED <<buttonPress, cacheVars, execVars, callerVars, threadVars, logVars>>

\* The creator of 'stoppingTTS' removes it again.
ClearStopSignal ==
    /\ Walking
    /\ stoppingTTS
    /\ stoppingTTS' = FALSE
    /\ lastAborted' = [lastAborted EXCEPT !.live = FALSE]
    /\ UNCHANGED <<playLog, emitted, walkEnd, lastCrashed>>
    /\ UNCHANGED <<buttonPress, cacheVars, execVars, callerVars, threadVars>>

\* create_signal('buttonPress') by the enclosure.
PressButton ==
    /\ Walking
    /\ ~buttonPress
    /\ buttonPress' = TRUE
    /\ UNCHANGED <<stoppingTTS, cacheVars, execVars, callerVars, threadVars, logVars>>

\* --------------------------------------------------------- playback thread
\* The pair show_visimes is at.
CurPair == cur.visimes[vIdx]

\* A run() without the except clause: the exception ends the thread.
RaisedEndsThread(j) ==
    /\ pc' = "exited"
    /\ cur' = NoJob
    /\ vIdx' = 0
    /\ elapsed' = 0
    /\ emitted' = <<>>
    /\ walkEnd' = ""
    /\ lastCrashed' = j

\* "except: pass" of run(): whatever was raised while handling job j is dropped
\* and the thread is back at the loop test.
Raised(j) ==
    /\ pc' = "loop"
    /\ cur' = NoJob
    /\ vIdx' = 0
    /\ elapsed' = 0
    /\ emitted' = <<>>
    /\ walkEnd' = ""
    /\ lastCrashed' = j

\* blink(rate): reading self.enclosure raises AttributeError while the thread
\* has no such attribute; with an enclosure the blink is drawn at random and
\* sending it may fail.
BlinkOutcomes == IF enclosure = "unset" THEN {"AttributeError"} ELSE {"ok", "raise"}

\* "while not self._terminated"
LoopCheck ==
    /\ pc = "loop"
    /\ pc' = IF terminated THEN "exited" ELSE "get"
    /\ UNCHANGED <<cur, p, playing, vIdx, elapsed>>
    /\ UNCHANGED <<cacheVars, execVars, callerVars, signalVars, logVars>>

\* A queue that hands out its newest item (last in, first out).
QueueBack == Len(queue)

\* The position queue.get takes its item from: a Queue is first in, first out.
QueueFront == 1

\* self.queue.get(timeout=2) with a job available.
Dequeue ==
    /\ pc = "get"
    /\ queue # <<>>
    /\ cur' = queue[QueueFront]
    /\ queue' = [i \in 1..(Len(queue) - 1) |->
                    IF i < QueueFront THEN queue[i] ELSE queue[i + 1]]
    /\ pc' = "start"
    /\ UNCHANGED <<p, playing, vIdx, elapsed, calls, lastExec>>
    /\ UNCHANGED <<cacheVars, callerVars, signalVars, logVars>>

\* A get() without timeout: it blocks for as long as the queue is empty.
GetBlocks ==
    /\ pc = "get"
    /\ queue = <<>>
    /\ UNCHANGED vars

\* self.queue.get(timeout=2) timing out on an empty queue: Queue.Empty is
\* raised and dropped by "except: pass".
GetTimeout ==
    /\ pc = "get"
    /\ queue = <<>>
    /\ pc' = "loop"
    /\ UNCHANGED <<cur, p, playing, vIdx, elapsed>>
    /\ UNCHANGED <<cacheVars, execVars, callerVars, signalVars, logVars>>

\* Where run() goes after the play call: into show_visimes (start = time())
\* when the job has visimes, to p.communicate() otherwise.
AfterPlay ==
    IF Truthy(cur.visimes)
    THEN pc' = "vis" /\ vIdx' = 1 /\ elapsed' = 0
    ELSE pc' = "wait" /\ vIdx' = 0 /\ elapsed' = 0

\* self.blink(0.5), then play_wav(data) / play_mp3(data) by snd_type; a type
\* that is neither starts nothing and leaves p as it was.
BlinkAndPlay ==
    /\ pc = "start"
    /\ \E b \in BlinkOutcomes, playOK \in BOOLEAN :
          IF b # "ok"
          THEN /\ Raised(cur.id)
               /\ UNCHANGED <<p, playing, playLog>>
          ELSE IF cur.snd_type \in {"wav", "mp3"}
          THEN IF playOK
               THEN /\ p' = cur.id
                    /\ playing' = playing \cup {cur.id}
                    /\ playLog' = Append(playLog, cur.id)
                    /\ AfterPlay
                    /\ UNCHANGED <<cur, emitted, walkEnd, lastCrashed>>
               ELSE /\ Raised(cur.id)
                    /\ UNCHANGED <<p, playing, playLog>>
          ELSE /\ AfterPlay
               /\ UNCHANGED <<cur, emitted, walkEnd, lastCrashed, p, playing, playLog>>
    /\ UNCHANGED lastAborted
    /\ UNCHANGED <<cacheVars, execVars, callerVars, signalVars>>

\* The end of one iteration of the for loop of show_visimes: on to the next
\* pair, or out of the walk to p.communicate().
NextPair ==
    IF vIdx < Len(cur.visimes)
    THEN pc' = "vis" /\ vIdx' = vIdx + 1 /\ UNCHANGED <<elapsed, walkEnd>>
    ELSE pc' = "wait" /\ vIdx' = 0 /\ elapsed' = 0 /\ walkEnd' = "done"

\* A walk that never looks at the signal.
StoppingTTSIgnored == FALSE

\* check_for_signal('stoppingTTS', -1): true while the signal exists; a
\* lifetime of -1 leaves the signal in place.
CheckStoppingTTS == stoppingTTS

\* The return of show_visimes on a signal.
WalkReturn(why) == pc' = "wait" /\ vIdx' = 0 /\ elapsed' = 0 /\ walkEnd' = why

\* A walk that does not sleep between the codes.
AfterEmitNoSleep == NextPair

\* After mouth_viseme: delta = time() - start; sleep(duration - delta) when
\* delta < duration.
AfterEmit ==
    IF elapsed < CurPair[2]
    THEN pc' = "sleep" /\ UNCHANGED <<vIdx, elapsed, walkEnd>>
    ELSE NextPair

\* One iteration of the for loop of show_visimes, up to its sleep.
WalkStep ==
    /\ pc = "vis"
    /\ IF CheckStoppingTTS
       THEN /\ WalkReturn("stop")
            /\ lastAborted' = [id |-> cur.id, sent |-> Len(emitted), live |-> TRUE]
            /\ UNCHANGED <<cur, emitted, lastCrashed, buttonPress>>
       ELSE IF buttonPress
       THEN \* check_for_signal('buttonPress'): the default lifetime 0 removes the signal
            /\ WalkReturn("button")
            /\ buttonPress' = FALSE
            /\ UNCHANGED <<cur, emitted, lastCrashed, lastAborted>>
       ELSE \E sent \in BOOLEAN :
               IF sent
               THEN /\ emitted' = Append(emitted, <<CurPair[1], elapsed>>)
                    /\ AfterEmit
                    /\ UNCHANGED <<cur, lastCrashed, lastAborted, buttonPress>>
               ELSE \* self.enclosure.mouth_viseme(code) raises
                    /\ Raised(cur.id)
                    /\ UNCHANGED <<lastAborted, buttonPress>>
    /\ UNCHANGED <<p, playing, stoppingTTS, playLog>>
    /\ UNCHANGED <<cacheVars, execVars, callerVars>>

\* A tick of 0.1 s passing while show_visimes sleeps.
Tick ==
    /\ pc = "sleep"
    /\ elapsed < CurPair[2]
    /\ elapsed' = elapsed + 1
    /\ UNCHANGED <<pc, cur, p, playing, vIdx>>
    /\ UNCHANGED <<cacheVars, execVars, callerVars, signalVars, logVars>>

\* sleep(duration - delta) returning.
Wake ==
    /\ pc = "sleep"
    /\ elapsed >= CurPair[2]
    /\ NextPair
    /\ UNCHANGED <<cur, p, playing>>
    /\ UNCHANGED <<playLog, emitted, lastAborted, lastCrashed>>
    /\ UNCHANGED <<cacheVars, execVars, callerVars, signalVars>>

\* p.communicate() then self.blink(0.2).  With p unbound the read of p raises
\* UnboundLocalError; otherwise the call returns once the process of p ended.
Communicate ==
    /\ pc = "wait"
    /\ IF p = 0
       THEN Raised(cur.id)
       ELSE /\ p \notin playing
            /\ \E b \in BlinkOutcomes :
                  IF b = "ok"
                  THEN /\ pc' = "loop"
                       /\ cur' = NoJob
                       /\ emitted' = <<>>
                       /\ walkEnd' = ""
                       /\ UNCHANGED <<vIdx, elapsed, lastCrashed>>
                  ELSE Raised(cur.id)
    /\ UNCHANGED <<p, playing, playLog, lastAborted>>
    /\ UNCHANGED <<cacheVars, execVars, callerVars, signalVars>>

\* The player process of job j ends.
PlaybackFinish(j) ==
    /\ j \in playing
    /\ playing' = playing \ {j}
    /\ UNCHANGED <<pc, cur, p, vIdx, elapsed>>
    /\ UNCHANGED <<cacheVars, execVars, callerVars, signalVars, logVars>>

\* ------------------------------------------------------------------ Next
\* PlaybackThread.run()
Thread ==
    \/ LoopCheck
    \/ Dequeue
    \/ GetTimeout
    \/ BlinkAndPlay
    \/ WalkStep
    \/ Wake
    \/ Communicate

Next ==
    \/ Create
    \/ InitWs
    \/ \E u \in Utterances : Execute(u)
    \/ ClearCache
    \/ Stop
    \/ SetStopSignal
    \/ ClearStopSignal
    \/ PressButton
    \/ Thread
    \/ Tick
    \/ \E j \in JobIds : PlaybackFinish(j)

Spec == Init /\ [][Next]_vars

\* The playback thread is scheduled, time passes, and a player process ends.
LiveSpec ==
    /\ Init
    /\ [][Next]_vars
    /\ WF_vars(Thread)
    /\ WF_vars(Tick)
    /\ \A j \in JobIds : WF_vars(PlaybackFinish(j))

\* ----------------------------------------------------------------- claims
\* An execute call is the step that counts it.
ExecuteStep == calls' = calls + 1

\* C1: at no time are two playbacks started by the thread running at once: the
\* play call of a job is made only after the process of the job played before
\* it has ended and been waited for, also when handling that job raised.
C1_NoOverlap == Cardinality(playing) <= 1

\* C2: jobs are played in the order execute submitted them: a job's id is the
\* number of its execute call, and the ids in the order of the play calls
\* only grow.
C2_FifoOrder ==
    \A i, j \in DOMAIN playLog : i < j => playLog[i] < playLog[j]

\* Two jobs were submitted and both played.
C2_Witness == playLog = <<1, 2>>

\* C3 as stated: of two execute calls in a row for the same sentence, with no
\* clear_cache between them and the first one a miss that returned, the second
\* is a cache hit and does not invoke get_tts.
C3_SecondCallHits ==
    [][(/\ ExecuteStep
        /\ lastExec.synthOK /\ lastExec.result = "returned"
        /\ lastExec'.u = lastExec.u)
       => (lastExec'.hit /\ lastExec'.synth = 0)]_vars

\* C3 amended: the second of two such calls is a cache hit that does not invoke
\* get_tts exactly when the first call left the audio file at the path made
\* from the fingerprint (the backend wrote it there and curate_cache did not
\* delete it); otherwise it invokes get_tts once more.
C3_SecondCallHitsIfCached ==
    [][(/\ ExecuteStep
        /\ lastExec.synthOK /\ lastExec.result = "returned"
        /\ lastExec'.u = lastExec.u)
       => IF Fingerprint(lastExec.u) \in wavFiles
          THEN lastExec'.hit /\ lastExec'.synth = 0
          ELSE ~lastExec'.hit /\ lastExec'.synth = 1]_vars

\* The second of two calls was a cache hit on the file the first one left.
C3_Witness == calls = 2 /\ lastExec.hit /\ Len(queue) = 2

\* C4: when get_tts fails during execute, the error leaves execute, no job is
\* queued, neither cache file changes, and get_tts was invoked once.
C4_SynthesisErrorAborts ==
    [][(ExecuteStep /\ lastExec'.synth > 0 /\ ~lastExec'.synthOK)
       => (/\ lastExec'.result = "SynthesisError"
           /\ lastExec'.synth = 1
           /\ queue' = queue
           /\ wavFiles' = wavFiles
           /\ phoFiles' = phoFiles)]_vars

\* get_tts failed on a call made with a phoneme file in the cache and a job queued.
C4_Witness ==
    /\ lastExec.result = "SynthesisError"
    /\ phoFiles[Fingerprint(lastExec.u)] # NoFile
    /\ queue # <<>>

\* Job j is waiting in the queue.
InQueue(j) == \E i \in DOMAIN queue : queue[i].id = j

\* C5: a walk that finds 'stoppingTTS' set at the top of an iteration sends no
\* code in that iteration nor any later one for the job: it returns to
\* p.communicate() without an exception; the thread leaves its loop only on
\* _terminated, and once a walk was ended by the signal every job in the
\* queue is still dequeued unless stop() was called.
C5_StopSignalEndsWalk ==
    /\ [][/\ (emitted' # emitted /\ emitted' # <<>>) => ~stoppingTTS
          /\ (pc = "vis" /\ stoppingTTS /\ pc' # "vis")
                => (/\ pc' = "wait" /\ walkEnd' = "stop"
                    /\ cur' = cur /\ emitted' = emitted
                    /\ lastCrashed' = lastCrashed)
          /\ walkEnd = "stop" => (emitted' = emitted \/ cur' = NoJob)
          /\ pc' = "exited" => terminated']_vars
    /\ \A j \in JobIds :
          (lastAborted.id # 0 /\ InQueue(j)) ~> (~InQueue(j) \/ terminated)

\* The walk of job 1 was ended by the signal after one code, and job 2 was
\* played after it.
C5_Witness ==
    /\ lastAborted.id = 1 /\ lastAborted.sent = 1
    /\ playLog = <<1, 2>>

\* d1 + ... + dk of a list of pairs.
RECURSIVE SumDur(_, _)
SumDur(pairs, k) == IF k = 0 THEN 0 ELSE pairs[k][2] + SumDur(pairs, k - 1)

\* The largest of d1 ... dk, 0 for k = 0.
RECURSIVE MaxDur(_, _)
MaxDur(pairs, k) == IF k = 0 THEN 0 ELSE Max(pairs[k][2], MaxDur(pairs, k - 1))

\* C6 as stated: the k-th code of a walk is sent when the time since the start
\* of the walk has reached d1 + ... + dk (A at tick 5, B at tick 8).
C6_CumulativeTiming ==
    \A k \in DOMAIN emitted :
        emitted[k] = <<cur.visimes[k][1], SumDur(cur.visimes, k)>>

\* C6 amended: each code is sent before the wait for its own duration, and a
\* duration is compared with the time since the start of the walk, not added
\* to the ones before: the first code is sent at the start, the k-th when the
\* time since the start has reached the largest of d1 ... d(k-1) (A at tick
\* 0, B at tick 5).
C6_EmitBeforeWait ==
    \A k \in DOMAIN emitted :
        emitted[k] = <<cur.visimes[k][1], MaxDur(cur.visimes, k - 1)>>

\* A walk over [(A,5), (B,3), (C,7)] sent all three codes.
C6_Witness == emitted = << <<"A", 0>>, <<"B", 5>>, <<"C", 5>> >>

\* C7: an exception raised while a job is handled (in blink, the play call, the
\* walk or the wait) leaves the thread at its loop test with the queue as it
\* was; the thread leaves its loop only on _terminated, and after a job
\* failed every job in the queue is still dequeued unless stop() was called.
C7_ExceptionsSwallowed ==
    /\ [][/\ lastCrashed' # lastCrashed => (pc' = "loop" /\ queue' = queue)
          /\ pc' = "exited" => terminated']_vars
    /\ \A j \in JobIds :
          (lastCrashed # 0 /\ InQueue(j)) ~> (~InQueue(j) \/ terminated)

\* Handling job 1 raised and job 2 was played afterwards.
C7_Witness ==
    /\ lastCrashed = 1
    /\ playLog # <<>>
    /\ playLog[Len(playLog)] = 2

\* C8: the first stop() sets _terminated, returns normally and leaves the
\* queue empty, and no job that was queued at that moment or submitted later
\* is played.
C8_StopDrainsQueue ==
    [][/\ (terminated' /\ ~terminated)
             => (stopResult' = "returned" /\ queue' = <<>>)
       /\ playLog' # playLog => (stopHead = 0 \/ cur.id < stopHead)]_vars

\* C9: _terminated, once set, stays set, and once it is set the thread leaves
\* its loop, given that the thread runs, sleeps end and player processes end.
C9_StopIsFinal ==
    /\ [][terminated => terminated']_vars
    /\ terminated ~> (pc = "exited")

\* The thread left its loop after stop(), with a job still in the queue.
C9_Witness == terminated /\ pc = "exited" /\ queue # <<>>

\* C10: an execute call whose get_tts returned ends normally and queues its
\* job, whatever happens while the phonemes are stored.
C10_TimingStoreNeverFatal ==
    [][(ExecuteStep /\ lastExec'.synthOK)
       => (lastExec'.result = "returned" /\ Len(queue') = Len(queue) + 1)]_vars

\* C11: after an execute call that missed and returned, the phoneme file of
\* its fingerprint is never one left by an earlier synthesis: it is absent or
\* empty, or it holds the phonemes this call's get_tts returned.
C11_FreshSynthesisOverwrites ==
    [][(ExecuteStep /\ ~lastExec'.hit /\ lastExec'.result = "returned")
       => LET pho == phoFiles'[Fingerprint(lastExec'.u)]
          IN  \/ pho \in {NoFile, <<>>}
              \/ Truthy(lastExec'.phonemes) /\ pho = lastExec'.phonemes]_vars

\* C12: the phonemes a cache hit loads are, character for character, the
\* content save_phonemes stored in the file.
C12_RoundTripIdentical ==
    (lastExec.hit /\ lastExec.phonemes # None)
        => lastExec.phonemes = phoFiles[Fingerprint(lastExec.u)]

C14_ValidatedOrRefused ==
    /\ [](/\ validation.result = "returned"
               => (validation.ran = ValidationSteps /\ validation.failed = "")
          /\ validation.result = "raised"
               => (/\ validation.ran # <<>>
                   /\ validation.ran = SubSeq(ValidationSteps, 1, Len(validation.ran))
                   /\ validation.failed = validation.ran[Len(validation.ran)])
          /\ validation.result = "none" => validation = NoValidation)
    /\ [][validation' # validation
             => UNCHANGED <<ttsType, wavFiles, phoFiles, queue, calls, lastExec,
                            enclosure, terminated, stopResult, stopHead, pc, cur, p,
                            playing, vIdx, elapsed, stoppingTTS, buttonPress, playLog,
                            emitted, walkEnd, lastAborted, lastCrashed>>]_vars

\* create refused the instance when the language step raised, with the
\* connection step not run.
C14_Witness ==
    /\ validation.result = "raised"
    /\ validation.ran = <<"instance", "filename", "lang">>

\* C15: a signal seen during the walk of a job ends that walk only: the thread
\* still waits for the player process of the job before it goes back to its
\* loop, and the 'stoppingTTS' signal that ended the walk of one job does not
\* end the walk of another job.
C15_SignalEndsOneWalk ==
    [][/\ (walkEnd \in {"stop", "button"} /\ pc = "wait" /\ pc' = "loop")
             => cur.id \notin playing
       /\ lastAborted'.id # lastAborted.id => ~lastAborted.live]_vars

\* C16: an execute call that hits the cache while the phoneme file is absent,
\* or cannot be read, does not invoke get_tts and returns: it appends one job
\* with the cached audio file and no visimes, and leaves the cache as it was.
C16_HitWithoutPayload ==
    [][LET key == Fingerprint(lastExec'.u)
       IN  (/\ ExecuteStep /\ lastExec'.hit
            /\ (phoFiles[key] = NoFile \/ lastExec'.phonemes = None))
           => (/\ lastExec'.synth = 0
               /\ lastExec'.result = "returned"
               /\ lastExec'.phonemes = None
               /\ queue' = Append(queue, [id |-> calls', snd_type |-> ttsType,
                                          data |-> key, visimes |-> None])
               /\ wavFiles' = wavFiles /\ phoFiles' = phoFiles)]_vars

\* The second call hit the cache with no phoneme file there, and its job has
\* no visimes.
C16_Witness ==
    /\ lastExec.hit
    /\ phoFiles[Fingerprint(lastExec.u)] = NoFile
    /\ Len(queue) = 2
    /\ queue[2].visimes = None

\* C17: an execute call that returns appends exactly one job, its own, at the
\* tail of the queue, and changes nothing of the playback thread: no process
\* is started or waited for and no visime is sent by the call.
C17_ExecuteOnlyAppends ==
    [][(ExecuteStep /\ lastExec'.result = "returned")
       => (/\ Len(queue') = Len(queue) + 1
           /\ SubSeq(queue', 1, Len(queue)) = queue
           /\ queue'[Len(queue')].id = calls'
           /\ UNCHANGED <<pc, cur, p, playing, vIdx, elapsed, playLog, emitted>>)]_vars

\* The second call returned while job 1 was playing and in its walk, and
\* job 2 waits in the queue.
C17_Witness ==
    /\ calls = 2 /\ lastExec.result = "returned"
    /\ playing = {1} /\ pc = "sleep"
    /\ Len(queue) = 1 /\ queue[1].id = 2

\* C18: the queue has a capacity: the maxsize it was made with or, for a queue
\* made without one, some number below the number of calls made while the
\* thread is busy, so that the calls are never all in the queue at once.
C18_QueueBounded ==
    Len(queue) <= IF QueueMaxsize > 0 THEN QueueMaxsize ELSE MaxCalls - 1

\* C19: a job of type wav or mp3 that the thread handles while no enclosure is
\* attached has its play call made all the same, and no job is played twice.
C19_PlayedWithoutEnclosure ==
    [][/\ (/\ pc = "start" /\ pc' # "start"
           /\ enclosure = "unset" /\ cur.snd_type \in {"wav", "mp3"})
             => playLog' = Append(playLog, cur.id)
       /\ playLog' # playLog
             => \A i \in DOMAIN playLog : playLog[i] # cur.id]_vars

\* C20: while the thread handles a job whose type is neither wav nor mp3, no
\* player process of the job runs and no visime of the job has been sent.
C20_UnknownTypeIsSilent ==
    (cur # NoJob /\ cur.snd_type \notin {"wav", "mp3"})
        => (cur.id \notin playing /\ emitted = <<>>)

====
